---- MODULE Spec2Model ----
(***************************************************************************)
(* Triage session lifecycle of MedAIChat (SmartIntake): the SQLite-backed  *)
(* session store of logic.py and the request handlers of app.py.           *)
(*                                                                         *)
(* Time is counted in units of 20 minutes of the UTC clock.  A text is a   *)
(* sequence of strings: a beneficiary's or nurse's input is a sequence of  *)
(* one-character strings, a fixed notice is a one-element sequence.        *)
(*                                                                         *)
(* Every handler is written once, as a step function over (store, request) *)
(* whose steps are the handler's reads and its committed transactions.     *)
(* Spec runs each handler to its end in one action; SpecRace lets two      *)
(* requests take their steps in any order.                                 *)
(***************************************************************************)
EXTENDS Integers, Sequences, FiniteSets, TLC

VARIABLES sessions,   \* table sessions: id -> row
          messages,   \* table messages, in insertion (rowid) order
          now,        \* the UTC clock
          nops,       \* operations served so far, reads that found nothing to do apart
          inflight,   \* requests being served (SpecRace only)
          last        \* the operation served last and its outcome (Spec only)

vars == <<sessions, messages, now, nops, inflight, last>>

----------------------------------------------------------------------------
(* Bounds of the model *)

MaxTime == 7
MaxOps == 2

(* how many questions the beneficiary has answered in the initial stores *)
InitAnswered == {10, 11}

SessionIds == {"s1"}
RequestSlots == {1, 2}

----------------------------------------------------------------------------
(* models.py *)

(* a schema without its last question *)
SchemaOfTen ==
    << [id |-> "chief_complaint",     q |-> "What is your main issue today?"],
       [id |-> "location",            q |-> "Where is the problem located?"],
       [id |-> "onset",               q |-> "When did it start?"],
       [id |-> "severity",            q |-> "How severe is it from 1 to 10?"],
       [id |-> "relieving_factors",   q |-> "What makes it better?"],
       [id |-> "aggravating_factors", q |-> "What makes it worse?"],
       [id |-> "fever",               q |-> "Have you had a fever?"],
       [id |-> "allergy",             q |-> "Are you allergic to anything?"],
       [id |-> "medications",         q |-> "What medications are you currently taking?"],
       [id |-> "conditions",          q |-> "Any chronic conditions?"] >>

INTAKE_SCHEMA ==
    << [id |-> "chief_complaint",     q |-> "What is your main issue today?"],
       [id |-> "location",            q |-> "Where is the problem located?"],
       [id |-> "onset",               q |-> "When did it start?"],
       [id |-> "severity",            q |-> "How severe is it from 1 to 10?"],
       [id |-> "relieving_factors",   q |-> "What makes it better?"],
       [id |-> "aggravating_factors", q |-> "What makes it worse?"],
       [id |-> "fever",               q |-> "Have you had a fever?"],
       [id |-> "allergy",             q |-> "Are you allergic to anything?"],
       [id |-> "medications",         q |-> "What medications are you currently taking?"],
       [id |-> "conditions",          q |-> "Any chronic conditions?"],
       [id |-> "prior_contact",       q |-> "Have you contacted us about this before?"] >>

INTAKE == "intake"
WAITING_FOR_NURSE == "waiting_for_nurse"
NURSE_ACTIVE == "nurse_active"
URGENT == "urgent"
INACTIVE == "inactive"
CLOSED == "closed"
COMPLETED == "completed"

(* ChatState.__members__: member name -> value *)
ChatStateMembers ==
    [INTAKE |-> INTAKE, WAITING_FOR_NURSE |-> WAITING_FOR_NURSE,
     NURSE_ACTIVE |-> NURSE_ACTIVE, URGENT |-> URGENT, INACTIVE |-> INACTIVE,
     CLOSED |-> CLOSED, COMPLETED |-> COMPLETED]

ChatStates == {ChatStateMembers[n] : n \in DOMAIN ChatStateMembers}

(* str.strip().upper() of the stored state values *)
UpperOf ==
    [intake |-> "INTAKE", waiting_for_nurse |-> "WAITING_FOR_NURSE",
     nurse_active |-> "NURSE_ACTIVE", urgent |-> "URGENT", inactive |-> "INACTIVE",
     closed |-> "CLOSED", completed |-> "COMPLETED"]

_coerce_state(raw) ==
    IF raw \in DOMAIN UpperOf /\ UpperOf[raw] \in DOMAIN ChatStateMembers
    THEN ChatStateMembers[UpperOf[raw]]
    ELSE INTAKE

EmptyDict == [k \in {} |-> <<>>]
NoText == <<>>

(* an intake record that starts at the second question *)
IntakeStateSkippingFirst == [current_index |-> 1, answers |-> EmptyDict, completed |-> FALSE]

(* IntakeState() *)
IntakeState == [current_index |-> 0, answers |-> EmptyDict, completed |-> FALSE]

(* json.dumps(asdict(intake)) and the json.loads of from_row *)
IntakeJson(intake) ==
    [current_index |-> intake.current_index, answers |-> intake.answers,
     completed |-> intake.completed]

IntakeFromJson(data) ==
    [current_index |-> IF "current_index" \in DOMAIN data THEN data.current_index ELSE 0,
     answers       |-> IF "answers" \in DOMAIN data THEN data.answers ELSE EmptyDict,
     completed     |-> IF "completed" \in DOMAIN data THEN data.completed = TRUE ELSE FALSE]

(* ChatSession.from_row *)
from_row(sid, row) ==
    [session_id    |-> sid,
     user_email    |-> row.user_email,
     state         |-> _coerce_state(row.state),
     created_at    |-> row.created_at,
     last_activity |-> row.last_activity,
     summary       |-> row.summary,
     intake        |-> IntakeFromJson(row.intake_json),
     is_read       |-> row.is_read,
     nurse_joined  |-> row.nurse_joined,
     was_urgent    |-> row.was_urgent]

(* datetime.now() is the server's local wall clock, datetime.utcnow() the UTC one *)
LocalNow(t) == [clock |-> "local", t |-> t]
UtcNow(t) == [clock |-> "utc", t |-> t]

(* the server's time zones taken: UTC-1, UTC, UTC+1, in units of 20 minutes *)
ZoneOffsets == {-3, 0, 3}

(* the value of a timestamp as it is stored: datetime.now() reads the
   server's local clock, datetime.utcnow() the UTC clock *)
Wall(timestamp, offset) ==
    IF timestamp.clock = "local" THEN timestamp.t + offset ELSE timestamp.t

(* a message that is always of the intake phase *)
MessageOfIntakePhase(role, content, timestamp, phase) ==
    [role |-> role, content |-> content, timestamp |-> timestamp, phase |-> "intake"]

Message(role, content, timestamp, phase) ==
    [role |-> role, content |-> content, timestamp |-> timestamp, phase |-> phase]

----------------------------------------------------------------------------
(* Texts: str.strip(), str.lower(), the `in` substring test *)

Whitespace == {" ", "\t", "\n", "\r"}

UpperChars == <<"A","B","C","D","E","F","G","H","I","J","K","L","M",
                "N","O","P","Q","R","S","T","U","V","W","X","Y","Z">>
LowerChars == <<"a","b","c","d","e","f","g","h","i","j","k","l","m",
                "n","o","p","q","r","s","t","u","v","w","x","y","z">>

LowerChar(c) ==
    IF \E i \in 1..Len(UpperChars) : UpperChars[i] = c
    THEN LowerChars[CHOOSE i \in 1..Len(UpperChars) : UpperChars[i] = c]
    ELSE c

Lower(text) == [i \in 1..Len(text) |-> LowerChar(text[i])]

(* a strip that keeps the text as it is *)
StripNothing(text) == text

Strip(text) ==
    LET keep == {i \in 1..Len(text) : text[i] \notin Whitespace}
    IN  IF keep = {} THEN NoText
        ELSE LET lo == CHOOSE i \in keep : \A j \in keep : i <= j
                 hi == CHOOSE i \in keep : \A j \in keep : j <= i
             IN  SubSeq(text, lo, hi)

Contains(hay, needle) ==
    \E i \in 0..(Len(hay) - Len(needle)) : SubSeq(hay, i + 1, i + Len(needle)) = needle

red_flags ==
    << <<"c","h","e","s","t"," ","p","a","i","n">>,
       <<"s","h","o","r","t","n","e","s","s"," ","o","f"," ","b","r","e","a","t","h">>,
       <<"c","a","n","'","t"," ","b","r","e","a","t","h","e">>,
       <<"s","e","v","e","r","e"," ","b","l","e","e","d","i","n","g">>,
       <<"u","n","c","o","n","s","c","i","o","u","s">>,
       <<"s","t","r","o","k","e">>,
       <<"h","e","a","r","t"," ","a","t","t","a","c","k">> >>

(* a keyword test that does not fold the case of the message *)
IsRedFlagCaseSensitive(message) ==
    \E i \in 1..Len(red_flags) : Contains(message, red_flags[i])

(* any(flag in message.lower() for flag in red_flags) *)
IsRedFlag(message) ==
    LET lowered == Lower(message)
    IN  \E i \in 1..Len(red_flags) : Contains(lowered, red_flags[i])

----------------------------------------------------------------------------
(* The store: logic.py's statements on the two tables *)

Store(ss, ms) == [sessions |-> ss, messages |-> ms]

EmptyTable == [k \in {} |-> k]

db_get_session(d, sid) == from_row(sid, d.sessions[sid])

(* the rows of one session in rowid order *)
Rows(ms, sid) == SelectSeq(ms, LAMBDA m : m.session_id = sid)

(* UPDATE sessions SET k = v, ... WHERE id = sid *)
db_update_session(d, sid, kwargs) ==
    IF sid \notin DOMAIN d.sessions THEN d
    ELSE Store([d.sessions EXCEPT ![sid] =
                    [k \in DOMAIN @ |-> IF k \in DOMAIN kwargs THEN kwargs[k] ELSE @[k]]],
               d.messages)

(* a save that writes the new row over the transcript's last one *)
SaveOverLastRow(d, sid, message, t) ==
    Store([d.sessions EXCEPT ![sid].last_activity = t],
          IF d.messages = <<>> THEN <<>>
          ELSE [d.messages EXCEPT ![Len(d.messages)] =
                    [session_id |-> sid, role |-> message.role, content |-> message.content,
                     timestamp |-> message.timestamp, phase |-> message.phase]])

(* INSERT INTO messages ...; UPDATE sessions SET last_activity = utcnow *)
db_save_message(d, sid, message, t) ==
    Store([d.sessions EXCEPT ![sid].last_activity = t],
          Append(d.messages,
                 [session_id |-> sid, role |-> message.role, content |-> message.content,
                  timestamp |-> message.timestamp, phase |-> message.phase]))

(* ORDER BY timestamp ASC over rows in the order of their insertion: two rows
   stamped in the same 20 minutes by the same clock were stamped at instants
   in that order *)
RECURSIVE SortedByTimestamp(_, _)
SortedByTimestamp(rows, offset) ==
    IF Len(rows) <= 1 THEN rows
    ELSE LET n == Len(rows)
             head == SortedByTimestamp(SubSeq(rows, 1, n - 1), offset)
             pos == Cardinality({i \in 1..(n - 1) :
                        Wall(head[i].timestamp, offset) <= Wall(rows[n].timestamp, offset)})
         IN  SubSeq(head, 1, pos) \o <<rows[n]>> \o SubSeq(head, pos + 1, n - 1)

(* SELECT * FROM messages WHERE session_id = ? ORDER BY timestamp ASC *)
db_get_messages(d, sid, offset) == SortedByTimestamp(Rows(d.messages, sid), offset)

system_message(d, sid, text, t) ==
    db_save_message(d, sid, Message("assistant", text, LocalNow(t), "system"), t)

----------------------------------------------------------------------------
(* Program constants, in units of 20 minutes *)

SoftTimeout == 1
HardTimeout == 4
GracePeriod == 4
MinNoteLen == 20

URGENT_NOTICE == <<"Your message suggests a potentially urgent condition. A nurse has been notified immediately.">>
(* an SOS press announced with the words of the keyword bypass *)
EmergencyNoticeOfBypass == URGENT_NOTICE

EMERGENCY_NOTICE == <<"Emergency button pressed. A nurse has been notified immediately.">>
SOS_NOTICE == <<"Emergency escalation has been activated.">>
JOINED_NOTICE == <<"A nurse has joined your case.">>
INTAKE_DONE_NOTICE == <<"Thank you. Your intake is complete. A nurse will review your case shortly.">>
CLOSED_NOTICE == <<"This session has been closed.">>
CLOSED_BY_BENEFICIARY == <<"Session closed by beneficiary">>
CLOSED_BY_NURSE == <<"Session closed by nurse.">>
TIMEOUT_NOTICE == <<"This session became inactive at ", "%I:%M %p", " due to inactivity. You have 1 hour to resume before it closes permanently.">>
RESUMED_NOTICE == <<"Session resumed at ", "%I:%M %p", ". You may continue where you left off.">>
SUMMARY_PLACEHOLDER == <<"System Note: Automated summary could not be generated. Please review patient responses manually.">>

SummaryModels == <<"models/gemini-2.5-flash", "models/gemini-2.0-flash", "models/gemini-1.5-flash">>

(* what one generate_content call does: it returns text, or no text (an empty
   response or an exception, after either of which the next model is tried) *)
ModelOutcomes == {"text", "none"}

Beneficiary == "beneficiary@example.org"
Nurse == "nurse@example.org"

----------------------------------------------------------------------------
(* Requests.  A request carries the handler's local variables. *)

BlankSession ==
    [session_id |-> "-", user_email |-> "-", state |-> INTAKE, created_at |-> 0,
     last_activity |-> 0, summary |-> NoText, intake |-> IntakeState,
     is_read |-> FALSE, nurse_joined |-> FALSE, was_urgent |-> FALSE]

NoSummaries == <<"none", "none", "none">>

Request(op, sid, raw, summ) ==
    [op |-> op, sid |-> sid, pc |-> "start", raw |-> raw, summ |-> summ,
     s |-> BlankSession, message |-> NoText, stale |-> {},
     sweeps |-> IF op = "nurse_poll" THEN 2 ELSE 1,
     outcome |-> "pending"]

IdleRequest == [Request("idle", "-", NoText, NoSummaries) EXCEPT !.pc = "done"]

Result(d, r) == [db |-> d, r |-> r]
Goto(d, r, pc) == Result(d, [r EXCEPT !.pc = pc])
Done(d, r, outcome) == Result(d, [r EXCEPT !.pc = "done", !.outcome = outcome])

----------------------------------------------------------------------------
(* logic.py: db_cleanup_stale_sessions *)

(* a soft pass that takes every open session, Urgent ones too *)
(* a soft pass that takes a session idle for exactly the timeout too *)
SoftStaleInclusive(d, t) ==
    {sid \in DOMAIN d.sessions :
        /\ d.sessions[sid].state \in {INTAKE, WAITING_FOR_NURSE, NURSE_ACTIVE}
        /\ d.sessions[sid].last_activity <= t - SoftTimeout}

SoftStaleAnyOpen(d, t) ==
    {sid \in DOMAIN d.sessions :
        /\ d.sessions[sid].state \in {INTAKE, WAITING_FOR_NURSE, NURSE_ACTIVE, URGENT}
        /\ d.sessions[sid].last_activity < t - SoftTimeout}

(* SELECT id, state FROM sessions WHERE state IN (active) AND state != urgent
   AND datetime(last_activity) < datetime('now', '-20 minutes') *)
SoftStale(d, t) ==
    {sid \in DOMAIN d.sessions :
        /\ d.sessions[sid].state \in {INTAKE, WAITING_FOR_NURSE, NURSE_ACTIVE}
        /\ d.sessions[sid].state # URGENT
        /\ d.sessions[sid].last_activity < t - SoftTimeout}

(* a hard pass that selects nothing *)
HardStaleNone(d, t) == {}

(* a hard pass that takes a session idle for exactly the timeout too *)
HardStaleInclusive(d, t) ==
    {sid \in DOMAIN d.sessions :
        /\ d.sessions[sid].state = INACTIVE
        /\ d.sessions[sid].last_activity <= t - HardTimeout}

(* SELECT id FROM sessions WHERE state = inactive
   AND datetime(last_activity) < datetime('now', '-80 minutes') *)
HardStale(d, t) ==
    {sid \in DOMAIN d.sessions :
        /\ d.sessions[sid].state = INACTIVE
        /\ d.sessions[sid].last_activity < t - HardTimeout}

(* a pass that writes its message and leaves the session's row as it was *)
TimeoutMessageOnly(d, sid, state, t) ==
    Store(d.sessions,
          Append(d.messages,
                 [session_id |-> sid, role |-> "assistant", content |-> TIMEOUT_NOTICE,
                  timestamp |-> LocalNow(t), phase |-> "system"]))

(* The two tests of the 80 minutes at the resolution of the stored values.
   An instant is a number of half seconds: 2400 of them to the model's unit
   of 20 minutes.  last_activity is stored with its microseconds
   (datetime.utcnow().isoformat()); SQLite's datetime() drops the fraction of
   the second, Python's comparison keeps it. *)
SubSecond == {0, 1}

(* datetime(x): the instant's whole second *)
SqlDatetime(instant) == instant - (instant % 2)

(* datetime(last_activity) < datetime('now', '-80 minutes') *)
HardStaleAt(last_activity, instant) ==
    SqlDatetime(last_activity) < SqlDatetime(instant - 2400 * HardTimeout)

(* now > s.last_activity + timedelta(minutes=80) *)
GraceExpiredAt(last_activity, instant) == instant > last_activity + 2400 * GracePeriod

(* the loop bodies: UPDATE sessions SET state = ? WHERE id = ?, then the message *)
TimeoutOne(d, sid, state, t) ==
    db_save_message(db_update_session(d, sid, [state |-> state]), sid,
                    Message("assistant", TIMEOUT_NOTICE, LocalNow(t), "system"), t)

RECURSIVE TimeoutAll(_, _, _, _)
TimeoutAll(d, sids, state, t) ==
    IF sids = {} THEN d
    ELSE LET sid == CHOOSE x \in sids : TRUE
         IN  TimeoutAll(TimeoutOne(d, sid, state, t), sids \ {sid}, state, t)

(* the sweep's steps; `after` is where the handler goes on *)
SweepStep(d, r, t, after) ==
    CASE r.pc = "soft_select" ->
            LET stale == SoftStale(d, t)
            IN  Goto(d, [r EXCEPT !.stale = stale],
                     IF stale = {} THEN "hard_select" ELSE "soft_update")
      [] r.pc = "soft_update" ->
            (* one transaction: the soft updates, the hard select and its updates *)
            LET d1 == TimeoutAll(d, r.stale, INACTIVE, t)
                d2 == TimeoutAll(d1, HardStale(d1, t), CLOSED, t)
            IN  Goto(d2, [r EXCEPT !.stale = {}], after)
      [] r.pc = "hard_select" ->
            LET stale == HardStale(d, t)
            IN  Goto(d, [r EXCEPT !.stale = stale],
                     IF stale = {} THEN after ELSE "hard_update")
      [] r.pc = "hard_update" ->
            Goto(TimeoutAll(d, r.stale, CLOSED, t), [r EXCEPT !.stale = {}], after)

SweepPcs == {"soft_select", "soft_update", "hard_select", "hard_update"}

----------------------------------------------------------------------------
(* logic.py: the summary, and the transition functions' statements *)

RECURSIVE FirstText(_, _)
FirstText(summ, i) ==
    IF i > Len(SummaryModels) THEN 0
    ELSE IF summ[i] = "text" THEN i
    ELSE FirstText(summ, i + 1)

(* a summary taken from the last model that returns text *)
SummaryOfLastModel(summary, summ) ==
    LET texts == {i \in 1..Len(SummaryModels) : summ[i] = "text"}
    IN  IF texts # {}
        THEN <<"summary", SummaryModels[CHOOSE i \in texts : \A j \in texts : j <= i]>>
        ELSE IF summary = NoText THEN SUMMARY_PLACEHOLDER
        ELSE summary

(* a summary that stays empty when no model returns text *)
SummaryWithoutPlaceholder(summary, summ) ==
    LET i == FirstText(summ, 1)
    IN  IF i > 0 THEN <<"summary", SummaryModels[i]>> ELSE summary

(* generate_intake_summary: the value of s.summary when it returns *)
generate_intake_summary(summary, summ) ==
    LET i == FirstText(summ, 1)
    IN  IF i > 0 THEN <<"summary", SummaryModels[i]>>
        ELSE IF summary = NoText THEN SUMMARY_PLACEHOLDER
        ELSE summary

(* a completion that leaves the state as it was *)
CompletedSessionInPlace(s, summary) ==
    [s EXCEPT !.summary = summary, !.intake.completed = TRUE]

(* complete_intake: the session it writes once the summary is there *)
CompletedSession(s, summary) ==
    [s EXCEPT !.summary = summary, !.state = WAITING_FOR_NURSE, !.intake.completed = TRUE]

(* reactivate_session: now > s.last_activity + timedelta(minutes=80) *)
GraceNeverExpired(s, t) == FALSE

GraceExpired(s, t) == t > s.last_activity + GracePeriod

(* a resumption that always goes back to the questions *)
ResumedAsIntake(s) == INTAKE

(* reactivate_session: the state a resumed session gets *)
ResumedState(s) == IF s.intake.completed THEN WAITING_FOR_NURSE ELSE INTAKE

(* nurse_joins: its early return *)
CanJoin(s) == s.state \in {WAITING_FOR_NURSE, URGENT}

(* a validation that turns down a note of exactly the minimum length too *)
NoteTooShortInclusive(note) == Len(Strip(note)) <= MinNoteLen

(* complete_session: len(completion_note.strip()) < 20 *)
NoteTooShort(note) == Len(Strip(note)) < MinNoteLen

(* an answer that moves the index and is not stored *)
RecordAnswerIndexOnly(intake, message) ==
    [intake EXCEPT !.current_index = intake.current_index + 1]

(* beneficiary_send: the answer recorded in the local intake *)
RecordAnswer(intake, message) ==
    LET q_info == INTAKE_SCHEMA[intake.current_index + 1]
    IN  [intake EXCEPT
            !.answers = [k \in DOMAIN intake.answers \cup {q_info.id} |->
                            IF k = q_info.id THEN message ELSE intake.answers[k]],
            !.current_index = intake.current_index + 1]

----------------------------------------------------------------------------
(* app.py: the handlers, one step per read and per committed transaction *)

(* /start *)
StartStep(d, r, t) ==
    CASE r.pc = "start" ->
            (* db_create_session: one transaction *)
            IF r.sid \in DOMAIN d.sessions THEN Done(d, r, "failed")
            ELSE LET row == [user_email |-> Beneficiary, state |-> INTAKE, summary |-> NoText,
                             is_read |-> FALSE, intake_json |-> IntakeJson(IntakeState),
                             created_at |-> t, last_activity |-> t,
                             nurse_joined |-> FALSE, was_urgent |-> FALSE]
                     first == [session_id |-> r.sid, role |-> "assistant",
                               content |-> <<INTAKE_SCHEMA[1].q>>,
                               timestamp |-> LocalNow(t), phase |-> "intake"]
                 IN  Goto(Store([k \in DOMAIN d.sessions \cup {r.sid} |->
                                    IF k = r.sid THEN row ELSE d.sessions[k]],
                                Append(d.messages, first)),
                          r, "set_intake")
      [] r.pc = "set_intake" ->
            Done(db_update_session(d, r.sid, [state |-> INTAKE]), r, "created")

(* /beneficiary/{sid}/send *)
SendStep(d, r, t) ==
    CASE r.pc = "start" ->
            IF r.sid \notin DOMAIN d.sessions THEN Done(d, r, "not_found")
            ELSE Goto(d, [r EXCEPT !.s = db_get_session(d, r.sid)], "form")
      [] r.pc = "form" ->
            (* await request.form(): the handler goes on with the session it read *)
            LET message == Strip(r.raw)
            IN  IF message = NoText THEN Done(d, r, "empty")
                ELSE Goto(d, [r EXCEPT !.message = message],
                          IF r.s.state = INACTIVE THEN "resume_read" ELSE "save_message")
      [] r.pc = "resume_read" ->
            (* reactivate_session reads the session again *)
            LET s == db_get_session(d, r.sid)
            IN  IF s.state # INACTIVE THEN Done(d, r, "unable")
                ELSE IF GraceExpired(s, t) THEN Done(d, r, "expired")
                ELSE Goto(d, [r EXCEPT !.s = s], "resume_update")
      [] r.pc = "resume_update" ->
            Goto(IF r.s.intake.completed
                 THEN db_update_session(d, r.sid, [state |-> ResumedState(r.s), is_read |-> FALSE])
                 ELSE db_update_session(d, r.sid, [state |-> ResumedState(r.s)]),
                 r, "resume_message")
      [] r.pc = "resume_message" ->
            Goto(db_save_message(d, r.sid,
                     Message("assistant", RESUMED_NOTICE, UtcNow(t), "system"), t),
                 r, "resume_reread")
      [] r.pc = "resume_reread" ->
            Goto(d, [r EXCEPT !.s = db_get_session(d, r.sid)], "save_message")
      [] r.pc = "save_message" ->
            LET user_msg == Message("beneficiary", r.message, LocalNow(t),
                                    IF r.s.state = INTAKE THEN "intake" ELSE "chat")
                d1 == db_update_session(db_save_message(d, r.sid, user_msg, t),
                                        r.sid, [is_read |-> FALSE])
            IN  IF r.s.state = INTAKE /\ ~r.s.intake.completed
                THEN IF IsRedFlag(r.message) THEN Goto(d1, r, "urgent_update")
                     ELSE IF r.s.intake.current_index < Len(INTAKE_SCHEMA)
                          THEN Goto(d1, r, "answer_update")
                          ELSE Goto(d1, r, "completed_flag")
                ELSE Done(d1, r, "chat")
      [] r.pc = "urgent_update" ->
            (* urgent_bypass *)
            Goto(db_update_session(d, r.sid, [state |-> URGENT, was_urgent |-> TRUE]),
                 [r EXCEPT !.s.state = URGENT], "urgent_message")
      [] r.pc = "urgent_message" ->
            Done(system_message(d, r.sid, URGENT_NOTICE, t), r, "urgent")
      [] r.pc = "answer_update" ->
            LET intake == RecordAnswer(r.s.intake, r.message)
            IN  Goto(db_update_session(d, r.sid, [intake_json |-> IntakeJson(intake)]),
                     [r EXCEPT !.s.intake = intake],
                     IF intake.current_index >= Len(INTAKE_SCHEMA)
                     THEN "completed_flag" ELSE "next_question")
      [] r.pc = "completed_flag" ->
            LET intake == [r.s.intake EXCEPT !.completed = TRUE]
            IN  Goto(db_update_session(d, r.sid, [intake_json |-> IntakeJson(intake)]),
                     [r EXCEPT !.s.intake = intake], "complete_intake")
      [] r.pc = "complete_intake" ->
            (* complete_intake, to its db_update_session *)
            IF r.s.state # INTAKE THEN Done(d, r, "completed")
            ELSE LET s == CompletedSession(
                              r.s, generate_intake_summary(r.s.summary, r.summ))
                 IN  Goto(db_update_session(d, r.sid,
                              [state |-> s.state, summary |-> s.summary,
                               intake_json |-> IntakeJson(s.intake), is_read |-> FALSE]),
                          [r EXCEPT !.s = s], "intake_messages")
      [] r.pc = "intake_messages" ->
            LET d1 == IF r.s.summary # NoText
                      THEN db_save_message(d, r.sid,
                               Message("assistant", r.s.summary, LocalNow(t), "summary"), t)
                      ELSE d
            IN  Done(db_save_message(d1, r.sid,
                         Message("assistant", INTAKE_DONE_NOTICE, LocalNow(t), "system"), t),
                     r, "completed")
      [] r.pc = "next_question" ->
            Done(db_save_message(d, r.sid,
                     Message("assistant", <<INTAKE_SCHEMA[r.s.intake.current_index + 1].q>>,
                             LocalNow(t), "intake"), t),
                 r, "answered")

(* /beneficiary/{sid}/emergency *)
EmergencyStep(d, r, t) ==
    CASE r.pc = "start" ->
            IF r.sid \notin DOMAIN d.sessions THEN Done(d, r, "not_found")
            ELSE Goto(d, [r EXCEPT !.s = db_get_session(d, r.sid)], "escalate_update")
      [] r.pc = "escalate_update" ->
            (* manual_emergency_escalation *)
            Goto(db_update_session(d, r.sid, [state |-> URGENT, was_urgent |-> TRUE]),
                 [r EXCEPT !.s.state = URGENT], "escalate_messages")
      [] r.pc = "escalate_messages" ->
            Done(db_save_message(system_message(d, r.sid, EMERGENCY_NOTICE, t), r.sid,
                     Message("assistant", SOS_NOTICE, LocalNow(t), "system"), t),
                 r, "escalated")

(* a close that clears the session's history flags *)
CloseClearingFlags(d, sid, t) ==
    db_save_message(db_update_session(d, sid, [state |-> CLOSED, was_urgent |-> FALSE,
                                               nurse_joined |-> FALSE]), sid,
                    Message("assistant", CLOSED_NOTICE, LocalNow(t), "system"), t)

(* close_session: the UPDATE, the message and the commit *)
close_session(d, sid, t) ==
    db_save_message(db_update_session(d, sid, [state |-> CLOSED]), sid,
                    Message("assistant", CLOSED_NOTICE, LocalNow(t), "system"), t)

(* /beneficiary/{sid}/close and /nurse/session/{sid}/close *)
CloseStep(d, r, t, notice) ==
    CASE r.pc = "start" ->
            IF r.sid \notin DOMAIN d.sessions THEN Done(d, r, "not_found")
            ELSE Goto(d, [r EXCEPT !.s = db_get_session(d, r.sid)], "close")
      [] r.pc = "close" ->
            Goto(close_session(d, r.sid, t), [r EXCEPT !.s.state = CLOSED], "close_message")
      [] r.pc = "close_message" ->
            Done(db_save_message(d, r.sid,
                     Message("assistant", notice, LocalNow(t), "system"), t),
                 r, "closed")

(* /nurse/{sid} *)
NurseViewStep(d, r, t) ==
    CASE r.pc = "start" ->
            IF r.sid \notin DOMAIN d.sessions THEN Done(d, r, "not_found")
            ELSE LET s == db_get_session(d, r.sid)
                 IN  Goto(d, [r EXCEPT !.s = s],
                          IF CanJoin(s) THEN "join_update" ELSE "mark_read")
      [] r.pc = "join_update" ->
            (* nurse_joins, to its db_update_session *)
            IF r.s.state = WAITING_FOR_NURSE
            THEN Goto(db_update_session(d, r.sid,
                          [state |-> NURSE_ACTIVE, nurse_joined |-> TRUE]),
                      [r EXCEPT !.s.state = NURSE_ACTIVE], "join_message")
            ELSE Goto(db_update_session(d, r.sid, [nurse_joined |-> TRUE]),
                      r, "join_message")
      [] r.pc = "join_message" ->
            (* the notice is committed by the db_update_session that marks as read *)
            Done(db_update_session(system_message(d, r.sid, JOINED_NOTICE, t),
                                   r.sid, [is_read |-> TRUE]),
                 r, "joined")
      [] r.pc = "mark_read" ->
            Done(db_update_session(d, r.sid, [is_read |-> TRUE]), r, "viewed")

(* /nurse/{sid}/send *)
NurseSendStep(d, r, t) ==
    CASE r.pc = "start" ->
            IF r.sid \notin DOMAIN d.sessions THEN Done(d, r, "not_found")
            ELSE Goto(d, [r EXCEPT !.s = db_get_session(d, r.sid)], "form")
      [] r.pc = "form" ->
            (* await request.form() *)
            LET message == Strip(r.raw)
            IN  IF message = NoText THEN Done(d, r, "empty")
                ELSE Goto(d, [r EXCEPT !.message = message], "save_message")
      [] r.pc = "save_message" ->
            Done(db_update_session(
                     db_save_message(d, r.sid,
                         Message("nurse", r.message, LocalNow(t), "chat"), t),
                     r.sid, [is_read |-> FALSE]),
                 r, "sent")

(* complete_session *)
complete_session(d, sid, nurse_email, completion_note, t) ==
    IF NoteTooShort(completion_note) THEN [db |-> d, result |-> "false"]
    ELSE IF sid \notin DOMAIN d.sessions
         (* the INSERT violates the foreign key: the exception leaves the handler *)
         THEN [db |-> d, result |-> "raised"]
         ELSE [db |-> db_save_message(
                          db_update_session(d, sid, [state |-> COMPLETED]), sid,
                          Message("assistant",
                                  <<"**Case Completed by Nurse ", nurse_email, "**\n\n">>
                                      \o completion_note,
                                  LocalNow(t), "completion"), t),
               result |-> "true"]

(* /nurse/session/{sid}/complete *)
CompleteCaseStep(d, r, t) ==
    CASE r.pc = "start" ->
            LET completion_note == Strip(r.raw)
            IN  IF Len(completion_note) < MinNoteLen THEN Done(d, r, "validation")
                ELSE Goto(d, [r EXCEPT !.message = completion_note], "complete")
      [] r.pc = "complete" ->
            LET res == complete_session(d, r.sid, Nurse, r.message, t)
            IN  Done(res.db, r,
                     CASE res.result = "true" -> "completed"
                       [] res.result = "false" -> "failed"
                       [] OTHER -> "error")

(* /chat/{sid}/poll, /nurse/poll, /beneficiary: the sweeps, then the reads *)
PollStep(d, r, t) ==
    CASE r.pc = "start" ->
            Goto(d, r, "soft_select")
      [] r.pc \in SweepPcs ->
            SweepStep(d, r, t, "swept")
      [] r.pc = "swept" ->
            IF r.sweeps > 1 THEN Goto(d, [r EXCEPT !.sweeps = @ - 1], "soft_select")
            ELSE IF r.op = "poll_chat" /\ r.sid \notin DOMAIN d.sessions
                 THEN Done(d, r, "not_found")
                 ELSE Done(d, r, "listed")

(* one step of a request *)
Step(d, r, t) ==
    CASE r.op = "start" -> StartStep(d, r, t)
      [] r.op = "beneficiary_send" -> SendStep(d, r, t)
      [] r.op = "beneficiary_emergency" -> EmergencyStep(d, r, t)
      [] r.op = "beneficiary_close" -> CloseStep(d, r, t, CLOSED_BY_BENEFICIARY)
      [] r.op = "nurse_close" -> CloseStep(d, r, t, CLOSED_BY_NURSE)
      [] r.op = "nurse_view" -> NurseViewStep(d, r, t)
      [] r.op = "nurse_send" -> NurseSendStep(d, r, t)
      [] r.op = "nurse_complete_case" -> CompleteCaseStep(d, r, t)
      [] r.op \in {"poll_chat", "nurse_poll", "beneficiary_dashboard"} -> PollStep(d, r, t)

(* a request served with no other request in between *)
RECURSIVE Run(_, _, _)
Run(d, r, t) ==
    IF r.pc = "done" THEN Result(d, r)
    ELSE LET res == Step(d, r, t) IN Run(res.db, res.r, t)

----------------------------------------------------------------------------
(* Inputs *)

BlankText == <<" ", "\t">>
PlainText == <<" ", "o", "k">>
AlarmText == <<"S", "T", "R", "O", "K", "E", "!">>
RawTexts == {BlankText, PlainText, AlarmText}

Filled(n) == [i \in 1..n |-> "x"]
Notes == {Filled(MinNoteLen - 1), <<" ">> \o Filled(MinNoteLen) \o <<" ">>}

SummaryRuns == [1..Len(SummaryModels) -> ModelOutcomes]

(* the models are called only by the answer to the last question *)
SummaryRunsFor(sid) ==
    IF /\ sid \in DOMAIN sessions
       /\ sessions[sid].state \in {INTAKE, INACTIVE}
       /\ ~sessions[sid].intake_json.completed
       /\ sessions[sid].intake_json.current_index + 1 >= Len(INTAKE_SCHEMA)
    THEN SummaryRuns
    ELSE {NoSummaries}

----------------------------------------------------------------------------
(* Initial stores: the empty one, and those of one consultation whose first
   k questions were answered at time 0 *)

NoStore == Store(EmptyTable, <<>>)

FirstSession == CHOOSE sid \in SessionIds : TRUE

RECURSIVE Answered(_)
Answered(k) ==
    IF k = 0 THEN Run(NoStore, Request("start", FirstSession, NoText, NoSummaries), 0).db
    ELSE Run(Answered(k - 1),
             Request("beneficiary_send", FirstSession, PlainText, NoSummaries), 0).db

(* the stores of a new consultation after each number of answers *)
NewSessionRuns == [k \in 0..Len(INTAKE_SCHEMA) |-> Answered(k)]

InitStores == {NoStore} \cup {Answered(k) : k \in InitAnswered}

NoRequests == [slot \in RequestSlots |-> IdleRequest]

Init ==
    /\ \E d \in InitStores : sessions = d.sessions /\ messages = d.messages
    /\ now = 0
    /\ nops = 0
    /\ inflight = NoRequests
    /\ last = [op |-> "init", sid |-> "-", outcome |-> "-"]

----------------------------------------------------------------------------
(* Spec: every request is served alone *)

(* the outcomes of the polls and of a nurse's view of a case already joined:
   `last` keeps the operation before them *)
QuietOutcomes == {"listed", "viewed"}

(* the operations that can end so *)
QuietOps == {"poll_chat", "nurse_poll", "beneficiary_dashboard", "nurse_view"}

Serve(req) ==
    LET d == Store(sessions, messages) IN
    /\ req.op \in QuietOps \/ nops < MaxOps
    /\ \E res \in {Run(d, req, now)} :
        LET quiet == res.r.outcome \in QuietOutcomes
        IN  /\ res.db # d \/ ~quiet => nops < MaxOps
            /\ sessions' = res.db.sessions
            /\ messages' = res.db.messages
            /\ nops' = IF res.db # d \/ ~quiet THEN nops + 1 ELSE nops
            /\ last' = IF quiet THEN last
                        ELSE [op |-> req.op, sid |-> req.sid, outcome |-> res.r.outcome]
            /\ UNCHANGED <<now, inflight>>

(* the clock is advanced only while some consultation is open (no statement
   reads the age of a closed or completed session) and an operation is still
   to come that could read it *)
Tick ==
    /\ now < MaxTime
    /\ nops < MaxOps
    /\ inflight = NoRequests
    /\ \E sid \in DOMAIN sessions : sessions[sid].state \notin {CLOSED, COMPLETED}
    /\ now' = now + 1
    /\ UNCHANGED <<sessions, messages, nops, inflight, last>>

StartRequests == {Request("start", sid, NoText, NoSummaries) : sid \in SessionIds}
PollChatRequests == {Request("poll_chat", sid, NoText, NoSummaries) : sid \in SessionIds}
NursePollRequests == {Request("nurse_poll", "-", NoText, NoSummaries)}
DashboardRequests == {Request("beneficiary_dashboard", "-", NoText, NoSummaries)}
SendRequests ==
    UNION {{Request("beneficiary_send", sid, raw, summ) :
                raw \in RawTexts, summ \in SummaryRunsFor(sid)} : sid \in SessionIds}
EmergencyRequests ==
    {Request("beneficiary_emergency", sid, NoText, NoSummaries) : sid \in SessionIds}
BeneficiaryCloseRequests ==
    {Request("beneficiary_close", sid, NoText, NoSummaries) : sid \in SessionIds}
NurseViewRequests == {Request("nurse_view", sid, NoText, NoSummaries) : sid \in SessionIds}
NurseSendRequests ==
    {Request("nurse_send", sid, raw, NoSummaries) :
        sid \in SessionIds, raw \in {BlankText, PlainText}}
CompleteCaseRequests ==
    {Request("nurse_complete_case", sid, note, NoSummaries) :
        sid \in SessionIds, note \in Notes}
NurseCloseRequests == {Request("nurse_close", sid, NoText, NoSummaries) : sid \in SessionIds}

StartSession == \E req \in StartRequests : Serve(req)
PollChat == \E req \in PollChatRequests : Serve(req)
NursePoll == \E req \in NursePollRequests : Serve(req)
BeneficiaryDashboard == \E req \in DashboardRequests : Serve(req)
BeneficiarySend == \E req \in SendRequests : Serve(req)
BeneficiaryEmergency == \E req \in EmergencyRequests : Serve(req)
BeneficiaryClose == \E req \in BeneficiaryCloseRequests : Serve(req)
NurseView == \E req \in NurseViewRequests : Serve(req)
NurseSend == \E req \in NurseSendRequests : Serve(req)
NurseCompleteCase == \E req \in CompleteCaseRequests : Serve(req)
NurseClose == \E req \in NurseCloseRequests : Serve(req)

Next ==
    \/ Tick
    \/ StartSession
    \/ PollChat
    \/ NursePoll
    \/ BeneficiaryDashboard
    \/ BeneficiarySend
    \/ BeneficiaryEmergency
    \/ BeneficiaryClose
    \/ NurseView
    \/ NurseSend
    \/ NurseCompleteCase
    \/ NurseClose

Spec == Init /\ [][Next]_vars

----------------------------------------------------------------------------
(* SpecRace: up to two requests are served at once by workers that share the
   database file and nothing else (a connection per request), each taking its
   steps (its reads and its committed transactions) in turn with the other's.
   The clock does not advance while a request is being served (Tick), and
   `last` is not kept. *)

Begin(req) ==
    /\ nops < MaxOps
    /\ nops' = nops + 1
    /\ UNCHANGED now
    /\ \E slot \in RequestSlots :
        /\ inflight[slot] = IdleRequest
        /\ \A other \in RequestSlots : other < slot => inflight[other] # IdleRequest
        /\ \E res \in {Step(Store(sessions, messages), req, now)} :
            /\ sessions' = res.db.sessions
            /\ messages' = res.db.messages
            /\ inflight' = [inflight EXCEPT
                                ![slot] = IF res.r.pc = "done" THEN IdleRequest ELSE res.r]
            /\ UNCHANGED last

(* what the summary models do is known when complete_intake calls them *)
ModelRuns(r) ==
    IF r.op = "beneficiary_send" /\ r.pc = "complete_intake" THEN SummaryRuns ELSE {r.summ}

Advance ==
    \E slot \in RequestSlots :
        /\ inflight[slot] # IdleRequest
        /\ \E summ \in ModelRuns(inflight[slot]) :
           \E res \in {Step(Store(sessions, messages),
                            [inflight[slot] EXCEPT !.summ = summ], now)} :
            /\ sessions' = res.db.sessions
            /\ messages' = res.db.messages
            /\ inflight' = [inflight EXCEPT
                                ![slot] = IF res.r.pc = "done" THEN IdleRequest ELSE res.r]
        /\ UNCHANGED <<now, nops, last>>

(* the serving process dies between two transactions: what is committed stays *)
Crash ==
    \E slot \in RequestSlots :
        /\ inflight[slot] # IdleRequest
        /\ inflight' = [inflight EXCEPT ![slot] = IdleRequest]
        /\ UNCHANGED <<sessions, messages, now, nops, last>>

BeginStartSession == \E req \in StartRequests : Begin(req)
BeginPollChat == \E req \in PollChatRequests : Begin(req)
BeginNursePoll == \E req \in NursePollRequests : Begin(req)
BeginBeneficiaryDashboard == \E req \in DashboardRequests : Begin(req)
BeginBeneficiarySend ==
    \E sid \in SessionIds, raw \in RawTexts :
        Begin(Request("beneficiary_send", sid, raw, NoSummaries))
BeginBeneficiaryEmergency == \E req \in EmergencyRequests : Begin(req)
BeginBeneficiaryClose == \E req \in BeneficiaryCloseRequests : Begin(req)
BeginNurseView == \E req \in NurseViewRequests : Begin(req)
BeginNurseSend == \E req \in NurseSendRequests : Begin(req)
BeginNurseCompleteCase == \E req \in CompleteCaseRequests : Begin(req)
BeginNurseClose == \E req \in NurseCloseRequests : Begin(req)

RaceNext ==
    \/ Tick
    \/ BeginStartSession
    \/ BeginPollChat
    \/ BeginNursePoll
    \/ BeginBeneficiaryDashboard
    \/ BeginBeneficiarySend
    \/ BeginBeneficiaryEmergency
    \/ BeginBeneficiaryClose
    \/ BeginNurseView
    \/ BeginNurseSend
    \/ BeginNurseCompleteCase
    \/ BeginNurseClose
    \/ Advance
    \/ Crash

SpecRace == Init /\ [][RaceNext]_vars

-----------------------------------------------------------------------------
(* The nurse's queue.  get_nurse_dashboard_data, after its sweep: the rows of
   SELECT * FROM sessions WHERE state NOT IN (closed, completed, intake)
   ORDER BY CASE WHEN state = urgent THEN 0 ELSE 1 END, created_at DESC.
   SQL leaves the order of rows with equal keys open: every order the
   statement allows is a listing. *)

(* a listing that keeps the sessions still in their intake *)
ListedWithIntake(d) ==
    {sid \in DOMAIN d.sessions : d.sessions[sid].state \notin {CLOSED, COMPLETED}}

Listed(d) ==
    {sid \in DOMAIN d.sessions : d.sessions[sid].state \notin {CLOSED, COMPLETED, INTAKE}}

UrgentRank(d, sid) == IF d.sessions[sid].state = URGENT THEN 0 ELSE 1

OrderedBefore(d, a, b) ==
    \/ UrgentRank(d, a) < UrgentRank(d, b)
    \/ /\ UrgentRank(d, a) = UrgentRank(d, b)
       /\ d.sessions[a].created_at >= d.sessions[b].created_at

get_nurse_dashboard_data(d) ==
    {q \in [1..Cardinality(Listed(d)) -> Listed(d)] :
        /\ \A i, j \in DOMAIN q : i # j => q[i] # q[j]
        /\ \A i, j \in DOMAIN q : i < j => OrderedBefore(d, q[i], q[j])}

(* SpecQueue: two consultations, the second begun 20 minutes after the first,
   each with its first questions answered; every request is served alone. *)

QueueIds == {"s1", "s2"}

RECURSIVE Consultation(_, _, _, _)
Consultation(d, sid, k, t) ==
    IF k = 0 THEN Run(d, Request("start", sid, NoText, NoSummaries), t).db
    ELSE Run(Consultation(d, sid, k - 1, t),
             Request("beneficiary_send", sid, PlainText, NoSummaries), t).db

QueueStores ==
    {Consultation(d, "s2", k, 1) :
        d \in {Consultation(NoStore, "s1", k, 0) : k \in InitAnswered},
        k \in InitAnswered}

QueueInit ==
    /\ \E d \in QueueStores : sessions = d.sessions /\ messages = d.messages
    /\ now = 1
    /\ nops = 0
    /\ inflight = NoRequests
    /\ last = [op |-> "init", sid |-> "-", outcome |-> "-"]

QueueSend ==
    \E sid \in QueueIds : Serve(Request("beneficiary_send", sid, PlainText, NoSummaries))
QueueEmergency ==
    \E sid \in QueueIds : Serve(Request("beneficiary_emergency", sid, NoText, NoSummaries))
QueueNurseView ==
    \E sid \in QueueIds : Serve(Request("nurse_view", sid, NoText, NoSummaries))
QueueCompleteCase ==
    \E sid \in QueueIds, note \in Notes :
        Serve(Request("nurse_complete_case", sid, note, NoSummaries))
QueueClose ==
    \E sid \in QueueIds : Serve(Request("nurse_close", sid, NoText, NoSummaries))

QueueNext ==
    \/ Tick
    \/ NursePoll
    \/ QueueSend
    \/ QueueEmergency
    \/ QueueNurseView
    \/ QueueCompleteCase
    \/ QueueClose

SpecQueue == QueueInit /\ [][QueueNext]_vars

----------------------------------------------------------------------------
(* Properties of the lifecycle.  Those on one request served alone are checked
   under Spec, those on requests served at once under SpecRace. *)

Terminal == {CLOSED, COMPLETED}
ActiveStates == {INTAKE, WAITING_FOR_NURSE, NURSE_ACTIVE}
PollOps == {"poll_chat", "nurse_poll", "beneficiary_dashboard"}
PollRequests == PollChatRequests \cup NursePollRequests \cup DashboardRequests

(* the rows of a session that carry one of the given contents *)
Notices(sid, contents) ==
    {i \in 1..Len(messages) :
        messages[i].session_id = sid /\ messages[i].content \in contents}

(* C1: once a session's persisted state is Closed or Completed, no operation
   (message, escalation, close, join, complete-case, sweep, reactivation)
   changes its state again. *)
C1_TerminalStateKept ==
    [][\A sid \in DOMAIN sessions :
          sessions[sid].state \in Terminal
              => sessions'[sid].state = sessions[sid].state]_vars

(* C2: a timeout sweep (both passes, as every poll runs them) leaves in Urgent
   every session whose persisted state is Urgent when it starts, however long
   the session has been idle. *)
C2_SweepKeepsUrgent ==
    \A req \in PollRequests :
        LET after == Run(Store(sessions, messages), req, now).db
        IN  \A sid \in DOMAIN sessions :
                sessions[sid].state = URGENT => after.sessions[sid] = sessions[sid]

(* an Urgent session idle for longer than both timeouts, which every poll sweeps *)
C2_UrgentIdleSwept ==
    \E sid \in DOMAIN sessions :
        /\ sessions[sid].state = URGENT
        /\ sessions[sid].last_activity < now - HardTimeout

(* C3: the only steps that take a session's persisted state from Urgent to
   another state are a nurse's join, close or complete-case. *)
C3_UrgentLeftByNurseOnly ==
    [][\A sid \in DOMAIN sessions :
          sessions[sid].state = URGENT /\ sessions'[sid].state # URGENT
              => NurseView \/ NurseClose \/ NurseCompleteCase]_vars

(* C4: a sweep served at once with another request writes Inactive only over a
   state that is Intake, WaitingForNurse or NurseActive when it writes, and
   Closed only over Inactive. *)
C4_SweepWritesOverSourceState ==
    [][\A slot \in RequestSlots :
          (/\ inflight[slot].op \in PollOps
           /\ inflight[slot].pc \in {"soft_update", "hard_update"}
           /\ inflight'[slot] # inflight[slot])
          => \A sid \in DOMAIN sessions :
                /\ (sessions'[sid].state = INACTIVE /\ sessions[sid].state # INACTIVE)
                        => sessions[sid].state \in ActiveStates
                /\ (sessions'[sid].state = CLOSED /\ sessions[sid].state # CLOSED)
                        => sessions[sid].state = INACTIVE]_vars

(* C5: with two requests on one session served at once no transition is applied
   twice: the session has at most one summary-phase message and at most one
   completion notice. *)
C5_IntakeCompletedOnce ==
    \A sid \in DOMAIN sessions :
        /\ Cardinality({i \in 1..Len(messages) :
                            messages[i].session_id = sid /\ messages[i].phase = "summary"}) <= 1
        /\ Cardinality(Notices(sid, {INTAKE_DONE_NOTICE})) <= 1

(* C6: no committed store holds a transition's state change without its audit
   message, or the message without the state change: for the urgent bypass and
   the manual escalation, the nurse's join, and the end of the intake. *)
C6_TransitionWithItsMessage ==
    \A sid \in DOMAIN sessions :
        /\ sessions[sid].was_urgent
              <=> Notices(sid, {URGENT_NOTICE, EMERGENCY_NOTICE}) # {}
        /\ sessions[sid].nurse_joined <=> Notices(sid, {JOINED_NOTICE}) # {}
        /\ sessions[sid].state \in {WAITING_FOR_NURSE, NURSE_ACTIVE}
              => Notices(sid, {INTAKE_DONE_NOTICE}) # {}
        /\ Notices(sid, {INTAKE_DONE_NOTICE}) # {} => sessions[sid].state # INTAKE

(* C7: in every persisted state intake.current_index lies between 0 and the
   number of questions, and a beneficiary message that brings current_index to
   the number of questions ends with intake.completed set and the session in
   WaitingForNurse. *)
C7_IndexBoundedAndIntakeCompleted ==
    \A sid \in DOMAIN sessions :
        /\ sessions[sid].intake_json.current_index \in 0..Len(INTAKE_SCHEMA)
        /\ sessions[sid].intake_json.current_index < Len(INTAKE_SCHEMA)
            => \A raw \in RawTexts, summ \in SummaryRunsFor(sid) :
                LET req == Request("beneficiary_send", sid, raw, summ)
                    after == Run(Store(sessions, messages), req, now).db.sessions[sid]
                IN  after.intake_json.current_index = Len(INTAKE_SCHEMA)
                        => after.intake_json.completed /\ after.state = WAITING_FOR_NURSE

(* the answer to the last question has just been served *)
C7_LastAnswerServed ==
    /\ last.op = "beneficiary_send"
    /\ last.outcome = "completed"
    /\ sessions[last.sid].intake_json.current_index = Len(INTAKE_SCHEMA)
    /\ Cardinality(DOMAIN sessions[last.sid].intake_json.answers) = Len(INTAKE_SCHEMA)

(* C8: in every persisted state, those reached by requests served at once
   included, a session in WaitingForNurse or NurseActive has intake.completed
   set. *)
C8_PostIntakeStateIsCompleted ==
    \A sid \in DOMAIN sessions :
        sessions[sid].state \in {WAITING_FOR_NURSE, NURSE_ACTIVE}
            => sessions[sid].intake_json.completed

(* C9: over every order of the steps of requests on one session the persisted
   intake.completed never goes from true to false, and the persisted
   intake.current_index never decreases while completed is false. *)
C9_CompletedKeptIndexMonotone ==
    [][\A sid \in DOMAIN sessions :
          /\ sessions[sid].intake_json.completed => sessions'[sid].intake_json.completed
          /\ ~sessions[sid].intake_json.completed
                => sessions'[sid].intake_json.current_index
                        >= sessions[sid].intake_json.current_index]_vars

(* C10: a beneficiary message with an urgent keyword, sent to a session in
   Intake with k answers recorded, ends with state Urgent and was_urgent set,
   the message and one system notice appended and nothing else, and
   intake.answers and current_index as they were: no answer is recorded and no
   question is asked. *)
C10_UrgentKeywordBypass ==
    \A sid \in DOMAIN sessions :
        (sessions[sid].state = INTAKE /\ ~sessions[sid].intake_json.completed)
        => \A summ \in SummaryRunsFor(sid) :
            LET req == Request("beneficiary_send", sid, AlarmText, summ)
                n == Len(messages)
                after == Run(Store(sessions, messages), req, now).db
            IN  /\ after.sessions[sid].state = URGENT
                /\ after.sessions[sid].was_urgent = TRUE
                /\ after.sessions[sid].intake_json = sessions[sid].intake_json
                /\ Len(after.messages) = n + 2
                /\ SubSeq(after.messages, 1, n) = messages
                /\ after.messages[n + 1].session_id = sid
                /\ after.messages[n + 1].role = "beneficiary"
                /\ after.messages[n + 1].content = Strip(AlarmText)
                /\ after.messages[n + 2].session_id = sid
                /\ after.messages[n + 2].role = "assistant"
                /\ after.messages[n + 2].phase = "system"
                /\ after.messages[n + 2].content = URGENT_NOTICE

(* an urgent keyword has just been served in a session with its answers recorded *)
C10_UrgentKeywordServed ==
    /\ last.op = "beneficiary_send"
    /\ last.outcome = "urgent"
    /\ sessions[last.sid].state = URGENT
    /\ sessions[last.sid].intake_json.current_index > 0
    /\ Cardinality(DOMAIN sessions[last.sid].intake_json.answers)
            = sessions[last.sid].intake_json.current_index
    /\ messages[Len(messages)].content = URGENT_NOTICE

SummaryRows(ms, sid) ==
    {i \in 1..Len(ms) : ms[i].session_id = sid /\ ms[i].phase = "summary"}

CompletionNoticeRows(ms, sid) ==
    {i \in 1..Len(ms) : /\ ms[i].session_id = sid
                        /\ ms[i].phase = "system"
                        /\ ms[i].content = INTAKE_DONE_NOTICE}

(* C11: once a session has an answer without urgent keywords to every question
   its state is WaitingForNurse, intake.completed is set and its transcript
   holds exactly one summary-phase message and exactly one completion notice:
   so the answer to the last question leaves it, whatever the summary models
   do, and so every completed intake stays. *)
C11_AnsweredIntakeIsQueued ==
    \A sid \in DOMAIN sessions :
        /\ sessions[sid].intake_json.completed
            => /\ Cardinality(SummaryRows(messages, sid)) = 1
               /\ Cardinality(CompletionNoticeRows(messages, sid)) = 1
        /\ (/\ sessions[sid].state = INTAKE
            /\ ~sessions[sid].intake_json.completed
            /\ sessions[sid].intake_json.current_index = Len(INTAKE_SCHEMA) - 1)
            => \A summ \in SummaryRunsFor(sid) :
                LET req == Request("beneficiary_send", sid, PlainText, summ)
                    after == Run(Store(sessions, messages), req, now).db
                IN  /\ after.sessions[sid].state = WAITING_FOR_NURSE
                    /\ after.sessions[sid].intake_json.completed
                    /\ Cardinality(SummaryRows(after.messages, sid)) = 1
                    /\ Cardinality(CompletionNoticeRows(after.messages, sid)) = 1

(* the last of the answers, none with an urgent keyword, has just been served:
   the summary and the notice end the transcript *)
C11_AllQuestionsAnswered ==
    /\ last.op = "beneficiary_send"
    /\ last.outcome = "completed"
    /\ sessions[last.sid].state = WAITING_FOR_NURSE
    /\ DOMAIN sessions[last.sid].intake_json.answers
            = {INTAKE_SCHEMA[i].id : i \in 1..Len(INTAKE_SCHEMA)}
    /\ \A k \in DOMAIN sessions[last.sid].intake_json.answers :
            ~IsRedFlag(sessions[last.sid].intake_json.answers[k])
    /\ messages[Len(messages) - 1].phase = "summary"
    /\ messages[Len(messages)].content = INTAKE_DONE_NOTICE

(* C12: a non-empty message without urgent keywords sent to a session in
   Intake at index i below the number of questions is persisted first, then
   answers[schema[i].id] is the text and current_index is i + 1, and when
   i + 1 is below the number of questions the prompt of schema[i + 1] follows
   as an intake-phase assistant message and nothing else. *)
C12_AnswerRecordedAndNextAsked ==
    \A sid \in DOMAIN sessions :
        (/\ sessions[sid].state = INTAKE
         /\ ~sessions[sid].intake_json.completed
         /\ sessions[sid].intake_json.current_index < Len(INTAKE_SCHEMA))
        => \A summ \in SummaryRunsFor(sid) :
            LET i == sessions[sid].intake_json.current_index
                n == Len(messages)
                req == Request("beneficiary_send", sid, PlainText, summ)
                after == Run(Store(sessions, messages), req, now).db
                intake == after.sessions[sid].intake_json
            IN  /\ SubSeq(after.messages, 1, n) = messages
                /\ after.messages[n + 1] =
                        [session_id |-> sid, role |-> "beneficiary",
                         content |-> Strip(PlainText), timestamp |-> LocalNow(now),
                         phase |-> "intake"]
                /\ intake.current_index = i + 1
                /\ DOMAIN intake.answers
                        = DOMAIN sessions[sid].intake_json.answers \cup {INTAKE_SCHEMA[i + 1].id}
                /\ intake.answers[INTAKE_SCHEMA[i + 1].id] = Strip(PlainText)
                /\ \A k \in DOMAIN sessions[sid].intake_json.answers \ {INTAKE_SCHEMA[i + 1].id} :
                        intake.answers[k] = sessions[sid].intake_json.answers[k]
                /\ i + 1 < Len(INTAKE_SCHEMA)
                    => /\ Len(after.messages) = n + 2
                       /\ after.messages[n + 2] =
                            [session_id |-> sid, role |-> "assistant",
                             content |-> <<INTAKE_SCHEMA[i + 2].q>>,
                             timestamp |-> LocalNow(now), phase |-> "intake"]
                       /\ after.sessions[sid].state = INTAKE

(* an answer has just been served and the next question asked *)
C12_AnswerServed ==
    /\ last.op = "beneficiary_send"
    /\ last.outcome = "answered"
    /\ sessions[last.sid].intake_json.current_index \in 1..(Len(INTAKE_SCHEMA) - 1)
    /\ messages[Len(messages)].content
            = <<INTAKE_SCHEMA[sessions[last.sid].intake_json.current_index + 1].q>>
    /\ messages[Len(messages) - 1].role = "beneficiary"

EmptyTexts == {NoText, BlankText}

(* C13: an empty or whitespace-only message, from the beneficiary or from the
   nurse, to a session in any state adds no message and leaves the session's
   row as it is. *)
C13_EmptyMessageChangesNothing ==
    \A sid \in DOMAIN sessions, op \in {"beneficiary_send", "nurse_send"}, raw \in EmptyTexts :
        LET res == Run(Store(sessions, messages), Request(op, sid, raw, NoSummaries), now)
        IN  /\ res.r.outcome = "empty"
            /\ res.db = Store(sessions, messages)

(* an empty message has just been turned down *)
C13_EmptyMessageServed ==
    /\ last.op \in {"beneficiary_send", "nurse_send"}
    /\ last.outcome = "empty"
    /\ last.sid \in DOMAIN sessions
    /\ sessions[last.sid].state # INTAKE

(* the row a pass of the sweep adds to a session's transcript *)
TimeoutRow(sid) ==
    [session_id |-> sid, role |-> "assistant", content |-> TIMEOUT_NOTICE,
     timestamp |-> LocalNow(now), phase |-> "system"]

(* the session after a pass of the sweep has moved it to `state` *)
TimedOut(after, sid, state) ==
    /\ after.sessions[sid] = [sessions[sid] EXCEPT !.state = state, !.last_activity = now]
    /\ Rows(after.messages, sid) = Append(Rows(messages, sid), TimeoutRow(sid))

Untouched(after, sid) ==
    /\ after.sessions[sid] = sessions[sid]
    /\ Rows(after.messages, sid) = Rows(messages, sid)

(* C14, as stated: the soft pass moves to Inactive every session in Intake,
   WaitingForNurse or NurseActive whose last_activity is at least 20 minutes
   old. *)
C14_SoftPassAtTwentyMinutes ==
    \A sid \in DOMAIN sessions, req \in PollRequests :
        (/\ sessions[sid].state \in ActiveStates
         /\ sessions[sid].last_activity <= now - SoftTimeout)
        => Run(Store(sessions, messages), req, now).db.sessions[sid].state = INACTIVE

(* C14, amended: the soft pass moves to Inactive every session in Intake,
   WaitingForNurse or NurseActive whose last_activity is more than 20 minutes
   old, appending one system message to it; a session in one of these states
   idle for 20 minutes or less, and a session in Urgent, Closed or Completed,
   is left as it is. *)
C14_SoftPassAfterTwentyMinutes ==
    \A sid \in DOMAIN sessions, req \in PollRequests :
        LET after == Run(Store(sessions, messages), req, now).db
        IN  /\ (/\ sessions[sid].state \in ActiveStates
                /\ sessions[sid].last_activity < now - SoftTimeout)
                => TimedOut(after, sid, INACTIVE)
            /\ (/\ sessions[sid].state \in ActiveStates
                /\ sessions[sid].last_activity >= now - SoftTimeout)
                => Untouched(after, sid)
            /\ sessions[sid].state \in {URGENT, CLOSED, COMPLETED}
                => Untouched(after, sid)

(* a session the soft pass has just moved to Inactive *)
C14_SoftTimedOut ==
    \E sid \in DOMAIN sessions :
        /\ sessions[sid].state = INACTIVE
        /\ sessions[sid].last_activity = now
        /\ now > SoftTimeout
        /\ Len(messages) > 0
        /\ messages[Len(messages)] = TimeoutRow(sid)

(* C15, as stated: the hard pass moves to Closed every Inactive session whose
   last_activity is at least 80 minutes old. *)
C15_HardPassAtEightyMinutes ==
    \A sid \in DOMAIN sessions, req \in PollRequests :
        (/\ sessions[sid].state = INACTIVE
         /\ sessions[sid].last_activity <= now - HardTimeout)
        => Run(Store(sessions, messages), req, now).db.sessions[sid].state = CLOSED

(* C15, amended: the hard pass moves to Closed every Inactive session whose
   last_activity is more than 80 minutes old, appending one system message to
   it; an Inactive session idle for 80 minutes or less stays Inactive and
   unchanged, and the pass changes no session that was not Inactive when the
   sweep began. *)
C15_HardPassAfterEightyMinutes ==
    \A sid \in DOMAIN sessions, req \in PollRequests :
        LET after == Run(Store(sessions, messages), req, now).db
        IN  /\ (/\ sessions[sid].state = INACTIVE
                /\ sessions[sid].last_activity < now - HardTimeout)
                => TimedOut(after, sid, CLOSED)
            /\ (/\ sessions[sid].state = INACTIVE
                /\ sessions[sid].last_activity >= now - HardTimeout)
                => Untouched(after, sid)
            /\ sessions[sid].state # INACTIVE
                => after.sessions[sid].state # CLOSED \/ sessions[sid].state = CLOSED

(* a session the hard pass has just moved to Closed *)
C15_HardTimedOut ==
    \E sid \in DOMAIN sessions :
        /\ sessions[sid].state = CLOSED
        /\ sessions[sid].last_activity = now
        /\ now > HardTimeout
        /\ Len(messages) > 1
        /\ messages[Len(messages)] = TimeoutRow(sid)
        /\ messages[Len(messages) - 1].content = TIMEOUT_NOTICE

NonEmptyTexts == {PlainText, AlarmText}

ResumedRow(sid) ==
    [session_id |-> sid, role |-> "assistant", content |-> RESUMED_NOTICE,
     timestamp |-> UtcNow(now), phase |-> "system"]

(* the store once an Inactive session is back in the state it left, with the
   resumption message as its last row *)
Resumed(sid) ==
    LET done == sessions[sid].intake_json.completed
    IN  Store([sessions EXCEPT ![sid] =
                    [@ EXCEPT !.state = IF done THEN WAITING_FOR_NURSE ELSE INTAKE,
                              !.is_read = IF done THEN FALSE ELSE @,
                              !.last_activity = now]],
              Append(messages, ResumedRow(sid)))

(* C16: a message sent to an Inactive session inside the grace window first
   reactivates it (WaitingForNurse when intake.completed, Intake otherwise),
   the resumption message is persisted ahead of the beneficiary's message, and
   the message is then processed as it is in the restored state. *)
C16_ResumedThenProcessed ==
    \A sid \in DOMAIN sessions :
        (/\ sessions[sid].state = INACTIVE
         /\ now <= sessions[sid].last_activity + GracePeriod)
        => \A raw \in NonEmptyTexts, summ \in SummaryRunsFor(sid) :
            LET req == Request("beneficiary_send", sid, raw, summ)
                after == Run(Store(sessions, messages), req, now).db
                k == Len(Rows(messages, sid))
                rows == Rows(after.messages, sid)
            IN  /\ after = Run(Resumed(sid), req, now).db
                /\ Len(rows) >= k + 2
                /\ SubSeq(rows, 1, k) = Rows(messages, sid)
                /\ rows[k + 1] = ResumedRow(sid)
                /\ rows[k + 2] =
                        [session_id |-> sid, role |-> "beneficiary",
                         content |-> Strip(raw), timestamp |-> LocalNow(now),
                         phase |-> IF sessions[sid].intake_json.completed
                                   THEN "chat" ELSE "intake"]

(* a message has just resumed a session the sweep had made Inactive *)
C16_MessageResumedSession ==
    /\ last.op = "beneficiary_send"
    /\ last.outcome \in {"chat", "answered", "completed", "urgent"}
    /\ \E i \in 2..(Len(messages) - 1) :
        /\ messages[i - 1].content = TIMEOUT_NOTICE
        /\ messages[i] = ResumedRow(last.sid)
        /\ messages[i + 1].role = "beneficiary"

(* C17: a message sent to an Inactive session whose last_activity is more than
   80 minutes old is answered Expired and changes nothing: no resumption
   message, no beneficiary message, the session's row as it was. *)
C17_ExpiredChangesNothing ==
    \A sid \in DOMAIN sessions :
        (/\ sessions[sid].state = INACTIVE
         /\ now > sessions[sid].last_activity + GracePeriod)
        => \A raw \in NonEmptyTexts :
            LET res == Run(Store(sessions, messages),
                           Request("beneficiary_send", sid, raw, NoSummaries), now)
            IN  /\ res.r.outcome = "expired"
                /\ res.db = Store(sessions, messages)

(* a message has just been turned down as expired *)
C17_ExpiredServed ==
    /\ last.op = "beneficiary_send"
    /\ last.outcome = "expired"
    /\ sessions[last.sid].state = INACTIVE
    /\ now > sessions[last.sid].last_activity + GracePeriod
    /\ messages[Len(messages)].content = TIMEOUT_NOTICE

(* the rows of a session written by the beneficiary or by the nurse *)
Inbound(sid) ==
    {i \in 1..Len(messages) : /\ messages[i].session_id = sid
                              /\ messages[i].role \in {"beneficiary", "nurse"}}

(* C18: the grace window is measured from the last activity before the soft
   timeout: a session the sweep made Inactive whose last beneficiary or nurse
   message is more than 80 minutes old is not reactivated by a message, which
   is answered Expired and changes nothing. *)
C18_GraceFromLastInbound ==
    \A sid \in DOMAIN sessions :
        (/\ sessions[sid].state = INACTIVE
         /\ Inbound(sid) # {}
         /\ \A i \in Inbound(sid) : now > messages[i].timestamp.t + GracePeriod)
        => \A raw \in NonEmptyTexts, summ \in SummaryRunsFor(sid) :
            LET res == Run(Store(sessions, messages),
                           Request("beneficiary_send", sid, raw, summ), now)
            IN  /\ res.r.outcome = "expired"
                /\ res.db = Store(sessions, messages)

CompletionRow(sid, note) ==
    [session_id |-> sid, role |-> "assistant",
     content |-> <<"**Case Completed by Nurse ", Nurse, "**\n\n">> \o Strip(note),
     timestamp |-> LocalNow(now), phase |-> "completion"]

(* C19: a complete-case request whose trimmed note is shorter than 20
   characters is answered with a validation error and changes nothing; one
   whose trimmed note has 20 characters or more, on a session that is neither
   Closed nor Completed, sets the state to Completed and appends exactly one
   completion-phase message that carries the nurse's identity and the note. *)
C19_CompleteCaseNeedsNote ==
    \A sid \in DOMAIN sessions, note \in Notes :
        LET res == Run(Store(sessions, messages),
                       Request("nurse_complete_case", sid, note, NoSummaries), now)
        IN  IF Len(Strip(note)) < MinNoteLen
            THEN /\ res.r.outcome = "validation"
                 /\ res.db = Store(sessions, messages)
            ELSE sessions[sid].state \notin Terminal
                 => /\ res.r.outcome = "completed"
                    /\ res.db.sessions[sid] =
                            [sessions[sid] EXCEPT !.state = COMPLETED, !.last_activity = now]
                    /\ Rows(res.db.messages, sid)
                            = Append(Rows(messages, sid), CompletionRow(sid, note))

(* a case has just been completed with a note of the minimum length *)
C19_CaseCompleted ==
    /\ last.op = "nurse_complete_case"
    /\ last.outcome = "completed"
    /\ sessions[last.sid].state = COMPLETED
    /\ messages[Len(messages)].phase = "completion"
    /\ Len(messages[Len(messages)].content) = 3 + MinNoteLen
    /\ \A i \in 1..(Len(messages) - 1) : messages[i].phase # "completion"

JoinedRow(sid) ==
    [session_id |-> sid, role |-> "assistant", content |-> JOINED_NOTICE,
     timestamp |-> LocalNow(now), phase |-> "system"]

(* C20: the nurse's join acts only on a session in WaitingForNurse or Urgent:
   from either it sets state to NurseActive and nurse_joined, and appends one
   system message; from every other state it changes neither the state, nor
   nurse_joined, nor the transcript; a second join right after the first
   appends no second system message. *)
C20_JoinFromQueueOrUrgent ==
    \A sid \in DOMAIN sessions :
        LET req == Request("nurse_view", sid, NoText, NoSummaries)
            after == Run(Store(sessions, messages), req, now).db
            again == Run(after, req, now).db
        IN  /\ sessions[sid].state \in {WAITING_FOR_NURSE, URGENT}
                => /\ after.sessions[sid].state = NURSE_ACTIVE
                   /\ after.sessions[sid].nurse_joined
                   /\ Rows(after.messages, sid) = Append(Rows(messages, sid), JoinedRow(sid))
            /\ sessions[sid].state \notin {WAITING_FOR_NURSE, URGENT}
                => /\ after.sessions[sid].state = sessions[sid].state
                   /\ after.sessions[sid].nurse_joined = sessions[sid].nurse_joined
                   /\ after.messages = messages
            /\ Rows(again.messages, sid) = Rows(after.messages, sid)

SystemRow(sid, content) ==
    [session_id |-> sid, role |-> "assistant", content |-> content,
     timestamp |-> LocalNow(now), phase |-> "system"]

(* C21: the SOS press on a session in Intake, WaitingForNurse, NurseActive or
   Inactive, whatever its intake progress, sets state to Urgent and was_urgent,
   appends system rows of which the first is the notice of the button and none
   is the notice of the keyword bypass, and leaves intake.current_index,
   intake.answers and every other column but last_activity as they were. *)
C21_ManualEscalation ==
    \A sid \in DOMAIN sessions :
        sessions[sid].state \in ActiveStates \cup {INACTIVE}
        => LET res == Run(Store(sessions, messages),
                          Request("beneficiary_emergency", sid, NoText, NoSummaries), now)
               k == Len(Rows(messages, sid))
               rows == Rows(res.db.messages, sid)
           IN  /\ res.r.outcome = "escalated"
               /\ res.db.sessions[sid] =
                    [sessions[sid] EXCEPT !.state = URGENT, !.was_urgent = TRUE,
                                          !.last_activity = now]
               /\ res.db.sessions[sid].intake_json = sessions[sid].intake_json
               /\ Len(rows) > k
               /\ SubSeq(rows, 1, k) = Rows(messages, sid)
               /\ rows[k + 1].phase = "system"
               /\ rows[k + 1].content = <<"Emergency button pressed. A nurse has been notified immediately.">>
               /\ \A i \in (k + 1)..Len(rows) :
                    /\ rows[i].phase = "system"
                    /\ rows[i].content # URGENT_NOTICE

(* the SOS button has just been pressed on a session the sweep had made
   Inactive, or on one with a nurse, or on one in the queue or in its intake *)
C21_SosPressed ==
    /\ last.op = "beneficiary_emergency"
    /\ last.outcome = "escalated"
    /\ sessions[last.sid].state = URGENT
    /\ sessions[last.sid].was_urgent
    /\ Len(messages) > 2
    /\ messages[Len(messages) - 1] = SystemRow(last.sid, EMERGENCY_NOTICE)
    /\ messages[Len(messages) - 2].content \in {TIMEOUT_NOTICE, JOINED_NOTICE}

(* C22: the SOS press on a session that is already Urgent leaves the store as
   it is: state, flags and transcript. *)
C22_EscalationOfUrgentIsIdempotent ==
    \A sid \in DOMAIN sessions :
        sessions[sid].state = URGENT
        => Run(Store(sessions, messages),
               Request("beneficiary_emergency", sid, NoText, NoSummaries), now).db
                = Store(sessions, messages)

(* C23: the nurse's listing holds, once each, exactly the sessions whose state
   after the listing's sweep is Urgent, WaitingForNurse, NurseActive or
   Inactive: no session in Intake, Closed or Completed is in it. *)
C23_QueueHoldsActionableSessions ==
    \A req \in NursePollRequests :
        LET after == Run(Store(sessions, messages), req, now).db
        IN  /\ get_nurse_dashboard_data(after) # {}
            /\ \A q \in get_nurse_dashboard_data(after) :
                /\ {q[i] : i \in DOMAIN q}
                    = {sid \in DOMAIN after.sessions :
                        after.sessions[sid].state
                            \in {URGENT, WAITING_FOR_NURSE, NURSE_ACTIVE, INACTIVE}}
                /\ \A i, j \in DOMAIN q : q[i] = q[j] => i = j

(* a case has just been completed or closed while the other consultation is
   in the queue: the listing holds the other one alone *)
C23_CaseLeftQueue ==
    /\ last.op \in {"nurse_complete_case", "nurse_close"}
    /\ last.outcome \in {"completed", "closed"}
    /\ sessions[last.sid].state \in Terminal
    /\ \E sid \in DOMAIN sessions :
        /\ sessions[sid].state \in {URGENT, WAITING_FOR_NURSE, NURSE_ACTIVE, INACTIVE}
        /\ get_nurse_dashboard_data(Store(sessions, messages)) = {<<sid>>}

(* C24: in the nurse's listing every Urgent session precedes every session
   that is not Urgent, and within each of the two groups the sessions are in
   the order of their last_activity, the most recent first. *)
C24_QueueByUrgencyThenActivity ==
    \A req \in NursePollRequests :
        LET after == Run(Store(sessions, messages), req, now).db
        IN  \A q \in get_nurse_dashboard_data(after) :
                \A i, j \in DOMAIN q :
                    i < j =>
                        /\ after.sessions[q[j]].state = URGENT
                            => after.sessions[q[i]].state = URGENT
                        /\ (after.sessions[q[i]].state = URGENT)
                                = (after.sessions[q[j]].state = URGENT)
                            => after.sessions[q[i]].last_activity
                                    >= after.sessions[q[j]].last_activity

(* what the three generate_content calls can do, one outcome a model: text, a
   response without text, an exception *)
SummaryAttempts == [1..Len(SummaryModels) -> {"text", "empty", "raises"}]

(* C25: for every combination of outcomes of the three summarization attempts
   the answer to the last question ends with state WaitingForNurse and a
   summary that is not empty: that of the first model, in the fixed order,
   that returns text, whatever the later ones would do, and the placeholder if
   none returns text. *)
C25_SummaryFallback ==
    \A sid \in DOMAIN sessions :
        (/\ sessions[sid].state = INTAKE
         /\ ~sessions[sid].intake_json.completed
         /\ sessions[sid].intake_json.current_index = Len(INTAKE_SCHEMA) - 1)
        => \A summ \in SummaryAttempts :
            LET res == Run(Store(sessions, messages),
                           Request("beneficiary_send", sid, PlainText, summ), now)
                after == res.db.sessions[sid]
                texts == {i \in DOMAIN summ : summ[i] = "text"}
            IN  /\ res.r.outcome = "completed"
                /\ after.state = WAITING_FOR_NURSE
                /\ after.intake_json.completed
                /\ after.summary # NoText
                /\ \A i \in texts :
                        (\A j \in 1..(i - 1) : j \notin texts)
                        => after.summary = <<"summary", SummaryModels[i]>>
                /\ texts = {} => after.summary = SUMMARY_PLACEHOLDER
                /\ \E i \in 1..Len(res.db.messages) :
                        /\ res.db.messages[i].phase = "summary"
                        /\ res.db.messages[i].content = after.summary

(* an intake has just been completed with the placeholder, no model having
   returned text *)
C25_PlaceholderUsed ==
    /\ last.op = "beneficiary_send"
    /\ last.outcome = "completed"
    /\ sessions[last.sid].state = WAITING_FOR_NURSE
    /\ sessions[last.sid].summary = SUMMARY_PLACEHOLDER
    /\ messages[Len(messages) - 1].content = SUMMARY_PLACEHOLDER

(* C26: within one session the timestamps of the persisted messages are
   non-decreasing in the order the messages were persisted, whatever the
   server's time zone. *)
C26_TimestampsNonDecreasing ==
    \A offset \in ZoneOffsets, sid \in DOMAIN sessions :
        LET rows == Rows(messages, sid)
        IN  \A i, j \in DOMAIN rows :
                i < j => Wall(rows[i].timestamp, offset) <= Wall(rows[j].timestamp, offset)

(* C27: a session's transcript is append-only: every step of the system leaves
   the rows persisted so far in their places, with their session, role,
   content, timestamp and phase. *)
C27_TranscriptAppendOnly ==
    [][/\ Len(messages') >= Len(messages)
       /\ SubSeq(messages', 1, Len(messages)) = messages]_vars

(* a nurse's message has just been appended to a transcript that already held
   a summary and the beneficiary's answers *)
C27_RowAppended ==
    /\ last.op = "nurse_send"
    /\ last.outcome = "sent"
    /\ Len(messages) > Len(INTAKE_SCHEMA)
    /\ messages[Len(messages)].role = "nurse"
    /\ \E i \in 1..(Len(messages) - 1) : messages[i].phase = "summary"

(* C28: the sweep is idempotent: run once more with no time elapsed and no
   operation in between, it leaves the store as its first run left it; so the
   nurse's poll, which runs it twice, leaves the store of a poll that runs it
   once. *)
C28_SweepIdempotent ==
    \A once \in DashboardRequests, twice \in NursePollRequests :
        LET swept == Run(Store(sessions, messages), once, now).db
        IN  /\ swept # Store(sessions, messages) => Run(swept, once, now).db = swept
            /\ Run(Store(sessions, messages), twice, now).db = swept

(* the sweep has just closed a session it had made Inactive: its two passes
   have each acted once on it *)
C28_SweptInBothPasses ==
    \E sid \in DOMAIN sessions :
        /\ sessions[sid].state = CLOSED
        /\ sessions[sid].last_activity = now
        /\ Cardinality(Notices(sid, {TIMEOUT_NOTICE})) = 2
        /\ last.op = "init"

(* C29: what is written is read back: for every state of the enumeration and
   every intake record written to a session's row, from_row returns that state
   and that record's answers, current_index and completed, and the messages
   are read back in the order they were persisted, whatever the server's time
   zone. *)
C29_SessionRoundTrip ==
    \A sid \in DOMAIN sessions :
        /\ \A state \in ChatStates, k \in 0..Len(INTAKE_SCHEMA), done \in BOOLEAN :
            LET intake == [current_index |-> k,
                           answers |-> [id \in {INTAKE_SCHEMA[i].id : i \in 1..k} |-> PlainText],
                           completed |-> done]
                d == db_update_session(Store(sessions, messages), sid,
                                       [state |-> state, intake_json |-> IntakeJson(intake)])
                s == db_get_session(d, sid)
            IN  /\ s.state = state
                /\ s.intake = intake
        /\ \A offset \in ZoneOffsets :
            db_get_messages(Store(sessions, messages), sid, offset) = Rows(messages, sid)

(* C30: the urgent bypass marks the state and the intake together: a message
   with an urgent keyword sent to a session in its intake leaves it Urgent
   with intake.completed set, and no session whose transcript holds the notice
   of the bypass has intake.completed unset. *)
C30_BypassCompletesIntake ==
    \A sid \in DOMAIN sessions :
        /\ Notices(sid, {URGENT_NOTICE}) # {} => sessions[sid].intake_json.completed
        /\ (sessions[sid].state = INTAKE /\ ~sessions[sid].intake_json.completed)
            => LET after == Run(Store(sessions, messages),
                                Request("beneficiary_send", sid, AlarmText, NoSummaries),
                                now).db.sessions[sid]
               IN  after.state = URGENT /\ after.intake_json.completed

(* C31: the history flags are monotone: no step of the system takes
   was_urgent or nurse_joined of a session from true back to false, whatever
   state the session moves to. *)
C31_HistoryFlagsKept ==
    [][\A sid \in DOMAIN sessions :
        /\ sid \in DOMAIN sessions'
        /\ sessions[sid].was_urgent => sessions'[sid].was_urgent
        /\ sessions[sid].nurse_joined => sessions'[sid].nurse_joined]_vars

(* a session that was urgent, or that a nurse had joined, has just been
   closed or completed *)
C31_FlaggedSessionEnded ==
    /\ last.op \in {"beneficiary_close", "nurse_close", "nurse_complete_case"}
    /\ last.outcome \in {"closed", "completed"}
    /\ sessions[last.sid].state \in Terminal
    /\ sessions[last.sid].was_urgent \/ sessions[last.sid].nurse_joined

(* C32: start-session creates a session in Intake with current_index 0, no
   answers, completed, was_urgent and nurse_joined false, and a transcript of
   exactly one row, the first question as an intake-phase assistant message,
   and touches no other session; when the creation fails (the id is taken)
   nothing is persisted. *)
C32_StartCreatesIntakeSession ==
    \A sid \in SessionIds \cup QueueIds :
        LET res == Run(Store(sessions, messages),
                       Request("start", sid, NoText, NoSummaries), now)
        IN  IF sid \in DOMAIN sessions
            THEN res.r.outcome = "failed" /\ res.db = Store(sessions, messages)
            ELSE /\ res.r.outcome = "created"
                 /\ DOMAIN res.db.sessions = DOMAIN sessions \cup {sid}
                 /\ \A other \in DOMAIN sessions : res.db.sessions[other] = sessions[other]
                 /\ res.db.sessions[sid].state = INTAKE
                 /\ res.db.sessions[sid].intake_json =
                        [current_index |-> 0, answers |-> [k \in {} |-> <<>>],
                         completed |-> FALSE]
                 /\ ~res.db.sessions[sid].was_urgent
                 /\ ~res.db.sessions[sid].nurse_joined
                 /\ res.db.messages = Append(messages,
                        [session_id |-> sid, role |-> "assistant",
                         content |-> <<"What is your main issue today?">>,
                         timestamp |-> LocalNow(now), phase |-> "intake"])
                 /\ Len(Rows(res.db.messages, sid)) = 1

(* a consultation has just been started in an empty store *)
C32_SessionStarted ==
    /\ last.op = "start"
    /\ last.outcome = "created"
    /\ DOMAIN sessions = {last.sid}
    /\ sessions[last.sid].state = INTAKE
    /\ Len(messages) = 1

(* C33, as stated: the schema has 10 questions and a session with 10 answers
   without urgent keywords has completed its intake. *)
C33_TenAnswersComplete ==
    /\ Len(INTAKE_SCHEMA) = 10
    /\ \A sid \in DOMAIN sessions :
        (/\ sessions[sid].intake_json.current_index = 10
         /\ ~sessions[sid].was_urgent
         /\ \A k \in DOMAIN sessions[sid].intake_json.answers :
                ~IsRedFlag(sessions[sid].intake_json.answers[k]))
        => sessions[sid].intake_json.completed

(* C33, amended: the schema has 11 questions: a new session that receives
   answers without urgent keywords is still in Intake with the question at
   index k pending after k answers, for every k up to 10 (after 3 answers the
   question at index 3), and completes its intake on the 11th answer (state
   WaitingForNurse, intake.completed true); an answer to a session in its
   intake completes it exactly when it is the 11th. *)
C33_ElevenAnswersComplete ==
    /\ Len(INTAKE_SCHEMA) = 11
    /\ \A k \in 0..10 :
        LET s == NewSessionRuns[k].sessions[FirstSession]
            rows == NewSessionRuns[k].messages
        IN  /\ s.state = INTAKE
            /\ ~s.intake_json.completed
            /\ s.intake_json.current_index = k
            /\ Cardinality(DOMAIN s.intake_json.answers) = k
            /\ rows[Len(rows)].role = "assistant"
            /\ rows[Len(rows)].content = <<INTAKE_SCHEMA[k + 1].q>>
    /\ LET rows == NewSessionRuns[3].messages
       IN  rows[Len(rows)].content = <<"How severe is it from 1 to 10?">>
    /\ NewSessionRuns[11].sessions[FirstSession].state = WAITING_FOR_NURSE
    /\ NewSessionRuns[11].sessions[FirstSession].intake_json.completed
    /\ \A sid \in DOMAIN sessions :
        (sessions[sid].state = INTAKE /\ ~sessions[sid].intake_json.completed)
        => LET after == Run(Store(sessions, messages),
                            Request("beneficiary_send", sid, PlainText, NoSummaries),
                            now).db.sessions[sid]
           IN  /\ after.intake_json.completed
                    = (sessions[sid].intake_json.current_index + 1 = 11)
               /\ after.state = IF sessions[sid].intake_json.current_index + 1 = 11
                                THEN WAITING_FOR_NURSE ELSE INTAKE

(* the 11th answer has just completed an intake that the 10th had left open *)
C33_EleventhAnswerServed ==
    /\ last.op = "beneficiary_send"
    /\ last.outcome = "completed"
    /\ sessions[last.sid].intake_json.current_index = 11
    /\ Cardinality(DOMAIN sessions[last.sid].intake_json.answers) = 11
    /\ sessions[last.sid].intake_json.completed
    /\ NewSessionRuns[10].sessions[last.sid].state = INTAKE

(* C34, as stated: a beneficiary message sent to a session whose
   intake.completed is true is appended with phase chat and nothing else is
   appended, and the intake and the state are unchanged. *)
C34_CompletedIntakeIsFreeChat ==
    \A sid \in DOMAIN sessions :
        sessions[sid].intake_json.completed
        => \A raw \in NonEmptyTexts :
            LET after == Run(Store(sessions, messages),
                             Request("beneficiary_send", sid, raw, NoSummaries), now).db
            IN  /\ Rows(after.messages, sid) = Append(Rows(messages, sid),
                        [session_id |-> sid, role |-> "beneficiary", content |-> Strip(raw),
                         timestamp |-> LocalNow(now), phase |-> "chat"])
                /\ after.sessions[sid].intake_json = sessions[sid].intake_json
                /\ after.sessions[sid].state = sessions[sid].state

(* C34, amended: a beneficiary message sent to a session whose
   intake.completed is true never changes intake.current_index, intake.answers
   or intake.completed and never appends an assistant question; when the
   session is not Inactive the message is appended with phase chat, nothing
   else is appended and the state is unchanged; when it is Inactive the
   session is first reactivated, or the message is turned down as expired. *)
C34_CompletedIntakeKept ==
    \A sid \in DOMAIN sessions :
        sessions[sid].intake_json.completed
        => \A raw \in NonEmptyTexts :
            LET after == Run(Store(sessions, messages),
                             Request("beneficiary_send", sid, raw, NoSummaries), now).db
                k == Len(Rows(messages, sid))
                rows == Rows(after.messages, sid)
            IN  /\ after.sessions[sid].intake_json = sessions[sid].intake_json
                /\ \A i \in (k + 1)..Len(rows) : rows[i].phase # "intake"
                /\ sessions[sid].state # INACTIVE
                    => /\ rows = Append(Rows(messages, sid),
                            [session_id |-> sid, role |-> "beneficiary",
                             content |-> IF raw = PlainText THEN <<"o", "k">> ELSE raw,
                             timestamp |-> LocalNow(now), phase |-> "chat"])
                       /\ after.sessions[sid].state = sessions[sid].state
                /\ sessions[sid].state = INACTIVE
                    => \/ after = Store(sessions, messages)
                       \/ /\ after.sessions[sid].state = WAITING_FOR_NURSE
                          /\ Len(rows) = k + 2
                          /\ rows[k + 2].role = "beneficiary"
                          /\ rows[k + 2].phase = "chat"

(* a message has just been served as free chat to a session in the queue *)
C34_FreeChatServed ==
    /\ last.op = "beneficiary_send"
    /\ last.outcome = "chat"
    /\ sessions[last.sid].intake_json.completed
    /\ sessions[last.sid].state = WAITING_FOR_NURSE
    /\ messages[Len(messages)].role = "beneficiary"
    /\ messages[Len(messages)].phase = "chat"
    /\ messages[Len(messages) - 1].content = INTAKE_DONE_NOTICE

(* C35: every operation on one session (beneficiary send, SOS, close by
   either role, nurse view, nurse reply, complete-case, transcript poll)
   called with an id that no session has ends as not found and leaves the
   store as it is. *)
C35_UnknownSessionNotFound ==
    \A req \in SendRequests \cup EmergencyRequests \cup BeneficiaryCloseRequests
                \cup NurseCloseRequests \cup NurseViewRequests \cup NurseSendRequests
                \cup CompleteCaseRequests \cup PollChatRequests :
        req.sid \notin DOMAIN sessions
        => LET res == Run(Store(sessions, messages), req, now)
           IN  /\ res.r.outcome = "not_found"
               /\ res.db = Store(sessions, messages)

(* C36: is_read is true right after the nurse opens the session, false after
   a beneficiary message that is persisted (an answer, the answer that
   completes the intake, a chat message) and after the SOS press, and the
   nurse's own reply does not take it from true to false. *)
C36_IsReadFollowsEvents ==
    \A sid \in DOMAIN sessions :
        LET d == Store(sessions, messages)
            viewed == Run(d, Request("nurse_view", sid, NoText, NoSummaries), now).db
            pressed == Run(d, Request("beneficiary_emergency", sid, NoText, NoSummaries),
                           now).db
            replied == Run(d, Request("nurse_send", sid, PlainText, NoSummaries), now).db
        IN  /\ viewed.sessions[sid].is_read
            /\ \A raw \in NonEmptyTexts, summ \in SummaryRunsFor(sid) :
                LET sent == Run(d, Request("beneficiary_send", sid, raw, summ), now).db
                IN  sent.messages # messages => ~sent.sessions[sid].is_read
            /\ ~pressed.sessions[sid].is_read
            /\ sessions[sid].is_read => replied.sessions[sid].is_read

(* C37: the reactivation window and the hard pass agree at every instant: for
   an Inactive session, whatever the fractions of a second of its
   last_activity and of the instant, reactivation succeeds exactly when a hard
   pass run at that instant leaves the session Inactive. *)
C37_WindowAndHardPassAgree ==
    \A sid \in DOMAIN sessions :
        sessions[sid].state = INACTIVE
        => \A f \in SubSecond, g \in SubSecond :
            LET last_activity == 2400 * sessions[sid].last_activity + f
                instant == 2400 * now + g
            IN  (~GraceExpiredAt(last_activity, instant)) <=> (~HardStaleAt(last_activity, instant))

(* C38: every session in the nurse's listing has completed its intake or has
   been escalated; a session that went Inactive while its intake questions
   were still being answered is not in the listing. *)
C38_ListedSessionsAreTriaged ==
    \A req \in NursePollRequests :
        LET after == Run(Store(sessions, messages), req, now).db
        IN  \A q \in get_nurse_dashboard_data(after) :
                \A i \in DOMAIN q :
                    LET s == db_get_session(after, q[i])
                    IN  s.intake.completed \/ s.was_urgent

(* C39: a message sent by the beneficiary or by the nurse to a session that
   is Closed or Completed is not appended to its transcript, and the attempt
   leaves the session's last_activity and is_read as they were. *)
C39_NoMessageAfterTheEnd ==
    \A req \in SendRequests \cup NurseSendRequests :
        (req.sid \in DOMAIN sessions /\ sessions[req.sid].state \in Terminal)
        => LET after == Run(Store(sessions, messages), req, now).db
           IN  /\ after.messages = messages
               /\ after.sessions[req.sid].last_activity = sessions[req.sid].last_activity
               /\ after.sessions[req.sid].is_read = sessions[req.sid].is_read

(* SpecAgeing: the events of a consultation all happen in its first instant
   and it is then left alone, while the pages that are open go on polling
   (hx_trigger="every 3s") as the clock advances. *)

Consult ==
    /\ now = 0
    /\ \E req \in StartRequests \cup SendRequests \cup EmergencyRequests
                    \cup NurseViewRequests \cup NurseSendRequests :
        Serve(req)

(* db_cleanup_stale_sessions as one transaction: the soft pass, then the hard
   pass on what the soft pass left *)
db_cleanup_stale_sessions(d, t) ==
    LET d1 == TimeoutAll(d, SoftStale(d, t), INACTIVE, t)
    IN  TimeoutAll(d1, HardStale(d1, t), CLOSED, t)

(* a poll whose sweep finds something to time out; what the page then reads
   changes nothing *)
AgeingSweep ==
    /\ \/ SoftStale(Store(sessions, messages), now) # {}
       \/ HardStale(Store(sessions, messages), now) # {}
    /\ sessions' = db_cleanup_stale_sessions(Store(sessions, messages), now).sessions
    /\ messages' = db_cleanup_stale_sessions(Store(sessions, messages), now).messages
    /\ UNCHANGED <<now, nops, inflight, last>>

(* polls come every few seconds: the clock reaches the next instant only
   when the sweep of this one has nothing left to select *)
AgeingTick ==
    /\ now < MaxTime
    /\ SoftStale(Store(sessions, messages), now) = {}
    /\ HardStale(Store(sessions, messages), now) = {}
    /\ now' = now + 1
    /\ UNCHANGED <<sessions, messages, nops, inflight, last>>

AgeingNext == Consult \/ AgeingSweep \/ AgeingTick

SpecAgeing ==
    Init /\ [][AgeingNext]_vars /\ WF_vars(AgeingSweep) /\ WF_vars(AgeingTick)

(* C40: with polls served as the clock advances, a session that is in Intake,
   WaitingForNurse, NurseActive or Inactive and receives no further message
   is eventually Closed; the sweep closes it only from Inactive; and a session
   that is Urgent, with no nurse acting on it, is Urgent ever after. *)
C40_IdleSessionsAgeOut ==
    /\ \A sid \in SessionIds :
        (/\ now > 0
         /\ sid \in DOMAIN sessions
         /\ sessions[sid].state \in {INTAKE, WAITING_FOR_NURSE, NURSE_ACTIVE, INACTIVE})
            ~> (sid \in DOMAIN sessions /\ sessions[sid].state = CLOSED)
    /\ [][\A sid \in DOMAIN sessions :
            (now > 0 /\ sessions[sid].state # CLOSED /\ sessions'[sid].state = CLOSED)
            => sessions[sid].state = INACTIVE]_vars
    /\ \A sid \in SessionIds :
        []((now > 0 /\ sid \in DOMAIN sessions /\ sessions[sid].state = URGENT)
            => [](sid \in DOMAIN sessions /\ sessions[sid].state = URGENT))

(* a session left alone has been timed out twice and is Closed *)
C40_AgedOut ==
    \E sid \in DOMAIN sessions :
        /\ sessions[sid].state = CLOSED
        /\ now >= SoftTimeout + HardTimeout + 2
        /\ Cardinality({i \in DOMAIN messages :
                /\ messages[i].session_id = sid
                /\ messages[i].content = TIMEOUT_NOTICE}) = 2

====
